---- MODULE Spec2Model ----
(***************************************************************************)
(* A model of the PM2 Telegram bot (sombochea/pm2-bot).                    *)
(*                                                                         *)
(* The repository holds two builds of the same class PM2TelegramBot:       *)
(*   "api"  src/src/bot.js        talks to PM2 through the node API and    *)
(*                                auto-restarts stuck processes;           *)
(*   "cli"  src/unnamed/part_001  talks to PM2 through the pm2 command     *)
(*                                line and offers bulk operations only.    *)
(* Both are modelled; variant says which build is running.                 *)
(*                                                                         *)
(* Spec     is the monitor: the setInterval timer and the passes of        *)
(*          checkProcessHealth it starts.  A pass is suspended at every    *)
(*          await on PM2 or Telegram, and the timer may fire there.        *)
(* SpecBot  is the chat front end: one update at a time goes through the   *)
(*          middleware stack in registration order.                        *)
(***************************************************************************)
EXTENDS Integers, Sequences, FiniteSets, TLC

VARIABLES
    variant,                    \* which build runs: "api" or "cli"
    now,                        \* Date.now() at the latest timer tick, ms since start
    pass,                       \* the in-flight calls of checkProcessHealth, by slot
    restartCounts,              \* this.restartCounts: name -> automatic restarts counted
    watched,                    \* the process the two observers follow: any one of them
    consecutiveUnhealthyChecks, \* observer: consecutive checks that found watched stuck
    lastAlertTime,              \* observer: when a threshold alert for watched last went out
    alerts,                     \* the calls of sendAlert made by the latest step, in order
    lastRestart,                \* the pm2Restart that settled in the latest step, if any
    lastList,                   \* how and when the latest getPM2Processes of a pass settled
    lastAttempt,                \* the attempt number in the auto-restart alert of the latest step, 0 if none
    keyboard,                   \* the callback data on the inline keyboard of the bot's latest reply
    lastUpdate,                 \* the update the latest step dispatched
    lastHandler,                \* the handler that update reached, "none" if it reached none
    lastOp,                     \* the PM2 lifecycle operation that handler executed, if any
    httpHealthCheckEnabled,     \* this.httpHealthCheckEnabled, read by the health handlers
    samples,                    \* observer: the latest readings the checks took of one process
    uptime,                     \* Date.now() - pm_uptime of that process at the latest check
    verdict,                    \* what the latest check of that process flagged
    probe,                      \* the outcome of the latest HTTP liveness probe
    restarts,                   \* pm2_env.restart_time of that process at the latest check
    lastRestartCountSeen,       \* observer: the highest restart_time the checks saw of it
    answer,                     \* what PM2 answered to the latest request for the process list
    listing,                    \* how the call that fetched the list settled for its caller
    pm2Connected,               \* this.pm2Connected
    pm2ConnectionPromise,       \* whether this.pm2ConnectionPromise holds a pending connect
    connects,                   \* the calls of pm2.connect whose callback has not run yet
    calls,                      \* where each caller of safePM2Operation stands
    settled,                    \* what the latest step settled for which caller
    recentCpuSamples,           \* health record of one process: its latest CPU samples
    recentMemorySamples,        \* health record of one process: its latest memory samples
    recorded,                   \* how many samples of that process were recorded so far
    auditLogMaxFiles,           \* this.auditLogMaxFiles, from AUDIT_LOG_MAX_FILES
    auditLogCurrentLines,       \* this.auditLogCurrentLines
    logFile,                    \* the current audit log file: whether it exists, its lines
    rotatedFiles,               \* the numbers i of the rotated files bot-audit.i.log that exist
    writers,                    \* where each call of logAuditWithCtx in flight stands
    written,                    \* how many audit writes were issued so far
    rejected                    \* how many calls to the file system were rejected so far

monitorVars ==
    <<now, pass, restartCounts, watched, consecutiveUnhealthyChecks, lastAlertTime, alerts,
      lastRestart, lastList, lastAttempt>>

botVars == <<keyboard, lastUpdate, lastHandler, lastOp>>

healthVars ==
    <<httpHealthCheckEnabled, samples, uptime, verdict, probe, restarts, lastRestartCountSeen>>

\* What the monitor and the chat front end leave alone.
listVars == <<answer, listing>>

pm2Vars == <<pm2Connected, pm2ConnectionPromise, connects, calls, settled>>

storeVars == <<recentCpuSamples, recentMemorySamples, recorded>>

auditVars ==
    <<auditLogMaxFiles, auditLogCurrentLines, logFile, rotatedFiles, writers, written, rejected>>

otherVars == <<healthVars, listVars, pm2Vars, storeVars, auditVars>>

vars == <<variant, monitorVars, botVars, auditVars, otherVars>>

(***************************************************************************)
(* Configuration and bounds                                                *)
(***************************************************************************)
Variants == {"api", "cli"}

\* MONITOR_INTERVAL, CPU_THRESHOLD, MEMORY_THRESHOLD: the defaults.
monitorInterval == 30000

cpuThreshold == 80

memoryThreshold == 80

\* RESTART_THRESHOLD as configured for the model (the default is 5).
restartThreshold == 2

\* isProcessStuck: "running for more than 5 minutes".
StuckUptime == 300000

\* The number of consecutive unhealthy checks that counts as red (showAppActions),
\* and the five minutes between two alerts for a process.
EscalationThreshold == 3

AlertCooldown == 5 * 60 * 1000

\* AUTHORIZED_CHATS_FOR_ALERT, in configured order.
authorizedChatsForAlert == <<1001, 1002>>

\* The processes PM2 lists, in PM2's order.
Apps == <<"api", "worker">>

AppNames == {Apps[i] : i \in 1..Len(Apps)}

\* At most MaxPasses calls of checkProcessHealth are in flight; the timer fires
\* at most MaxTicks times.
MaxPasses == 2

MaxTicks == 3

Slots == 1..MaxPasses

(***************************************************************************)
(* What pm2.list reports for one process.                                  *)
(***************************************************************************)
MB == 1048576

\* The readings drawn for a running process: idle for exactly five minutes with
\* memory at the threshold; idle for longer; busy above both thresholds.
Readings ==
    { [cpu |-> 0,  memory |-> 80 * MB, uptime |-> StuckUptime],
      [cpu |-> 0,  memory |-> 80 * MB, uptime |-> StuckUptime + 1],
      [cpu |-> 81, memory |-> 81 * MB, uptime |-> StuckUptime + 1] }

\* PM2 reports no load for a process that is not running.
ProcEntry(n) ==
    { [name |-> n, status |-> "online", cpu |-> r.cpu, memory |-> r.memory, uptime |-> r.uptime] :
        r \in Readings }
    \cup { [name |-> n, status |-> "stopped", cpu |-> 0, memory |-> 0, uptime |-> 0] }

\* Every list PM2 can answer with: one entry per app, in PM2's order.
RECURSIVE ListsFrom(_)
ListsFrom(i) ==
    IF i > Len(Apps) THEN {<<>>}
    ELSE {<<e>> \o rest : e \in ProcEntry(Apps[i]), rest \in ListsFrom(i + 1)}

Snapshots == ListsFrom(1)

\* processes.filter((p) => p.pm2_env.status === "online")
IsOnline(p) == p.status = "online"

\* A slip that hands the whole list to the loop.
EveryProcess(processes) == processes

OnlineProcesses(processes) == SelectSeq(processes, IsOnline)

\* Math.round(proc.monit.memory / 1024 / 1024)
MemoryMB(bytes) == (2 * bytes + MB) \div (2 * MB)

\* isProcessStuck: uptime > 300000 && cpu === 0 && status === "online"
isProcessStuck(proc) ==
    proc.uptime > StuckUptime /\ proc.cpu = 0 /\ proc.status = "online"

(***************************************************************************)
(* sendAlert                                                               *)
(***************************************************************************)
\* The loop over authorizedChatsForAlert from destination i on; fails is the set
\* of chats whose sendMessage rejects.  The catch block formats its log line
\* with the undeclared identifier userId, so it throws a ReferenceError out of
\* sendAlert: the loop ends at the first failing destination.
RECURSIVE Deliver(_, _)
Deliver(i, fails) ==
    IF i > Len(authorizedChatsForAlert)
    THEN [attempted |-> Len(authorizedChatsForAlert), raised |-> FALSE]
    ELSE IF authorizedChatsForAlert[i] \in fails
         THEN [attempted |-> i, raised |-> TRUE]
         ELSE Deliver(i + 1, fails)

\* One call of sendAlert: what it was about, how many destinations it tried,
\* and whether it threw to its caller.
sendAlert(kind, proc, fails) ==
    LET d == Deliver(1, fails)
    IN  [kind |-> kind, proc |-> proc, attempted |-> d.attempted, raised |-> d.raised]

\* The destinations a call reached: all it tried but the one that made it throw.
Delivered(a) == IF a.raised THEN a.attempted - 1 ELSE a.attempted

FailSets == SUBSET {authorizedChatsForAlert[i] : i \in 1..Len(authorizedChatsForAlert)}

\* The outcomes to draw for a sendAlert call that is made, or would not be made.
FailChoices(made) == IF made THEN FailSets ELSE {{}}

\* A run of awaited sendAlert calls: once one has thrown, the calls after it in
\* the same block are not made.
NoneSent == [alerts |-> <<>>, raised |-> FALSE]

Send(sent, kind, proc, fails) ==
    IF sent.raised THEN sent
    ELSE LET a == sendAlert(kind, proc, fails)
         IN  [alerts |-> Append(sent.alerts, a), raised |-> a.raised]

(***************************************************************************)
(* The monitor                                                             *)
(***************************************************************************)
Idle == [pc |-> "idle", queue |-> <<>>, currentCount |-> 0]

NoRestart == [proc |-> "none", ok |-> FALSE]

\* No alert yet: before every time.
Never == 0 - 1

InFlight == {s \in Slots : pass[s].pc # "idle"}

\* The for loop of checkProcessHealth moves on to the next online process, or
\* the pass returns.
NextProcess(p) ==
    IF Len(p.queue) > 1
    THEN [pc |-> "eval", queue |-> Tail(p.queue), currentCount |-> 0]
    ELSE Idle

\* The observer of the threshold alerts that reached a destination in a step.
ThresholdKinds == {"HighCPU", "HighMemory"}

ThresholdAlertFor(sent, n) ==
    \E i \in 1..Len(sent) :
        sent[i].proc = n /\ sent[i].kind \in ThresholdKinds /\ Delivered(sent[i]) > 0

AlertedAt(time, sent, t) == IF ThresholdAlertFor(sent, watched) THEN t ELSE time

\* The observer of the health verdicts: one more unhealthy check (counted up to
\* the escalation threshold), or healthy again.
Unhealthy(c) == IF c < EscalationThreshold THEN c + 1 ELSE c

HealthyKeeps(c) == c

Healthy(c) == 0

NoProbe ==
    [outcome |-> [kind |-> "none"],
     result |-> [healthy |-> TRUE, reasons |-> {}, lastHttpStatus |-> "none"]]

DefaultMaxFiles == 5

NoFile == [exists |-> FALSE, lines |-> 0]

MaxWriters == 2

Writers == 1..MaxWriters

\* No call in flight: pending counts the entries a call has still to append.
Returned == [pc |-> "idle", pending |-> 0]

NoAnswer == [kind |-> "none"]

NoListing == [ok |-> TRUE, processes |-> <<>>]

MaxCallers == 3

Callers == 1..MaxCallers

NoCall == [caller |-> 0, step |-> "none", ok |-> TRUE]

NoUpdate == [from |-> 0, kind |-> "none", text |-> "", match |-> <<>>, data |-> <<>>]

NoOp == [fn |-> "none", name |-> <<>>, targets |-> {}]

\* The state the constructor leaves, whatever the configuration.
Started ==
    /\ variant \in Variants
    /\ keyboard = [to |-> 0, buttons |-> {}]
    /\ lastUpdate = NoUpdate
    /\ lastHandler = "none"
    /\ lastOp = NoOp
    /\ now = 0
    /\ pass = [s \in Slots |-> Idle]
    /\ restartCounts = [n \in AppNames |-> 0]
    /\ watched \in AppNames
    /\ consecutiveUnhealthyChecks = 0
    /\ lastAlertTime = Never
    /\ alerts = <<>>
    /\ lastRestart = NoRestart
    /\ lastList = [outcome |-> "none", at |-> 0]
    /\ lastAttempt = 0
    /\ samples = <<>>
    /\ uptime = 0
    /\ verdict = {}
    /\ probe = NoProbe
    /\ restarts = 0
    /\ lastRestartCountSeen = 0
    /\ answer = NoAnswer
    /\ listing = NoListing
    /\ pm2Connected = FALSE
    /\ pm2ConnectionPromise = FALSE
    /\ connects = 0
    /\ calls = [c \in Callers |-> "idle"]
    /\ settled = NoCall
    /\ recentCpuSamples = <<>>
    /\ recentMemorySamples = <<>>
    /\ recorded = 0
    /\ auditLogCurrentLines = 0
    /\ logFile = NoFile
    /\ rotatedFiles = {}
    /\ writers = [w \in Writers |-> Returned]
    /\ written = 0
    /\ rejected = 0

\* Nothing in src sets this.httpHealthCheckEnabled: it stays undefined.
Init ==
    Started /\ httpHealthCheckEnabled = FALSE /\ auditLogMaxFiles = DefaultMaxFiles

\* startMonitoring: the setInterval callback calls checkProcessHealth, which
\* awaits the process list.  Nothing tells the callback that an earlier call has
\* not returned.
Tick(s) ==
    /\ pass[s].pc = "idle"
    /\ \A t \in Slots : t < s => pass[t].pc # "idle"
    /\ now < MaxTicks * monitorInterval
    /\ now' = now + monitorInterval
    /\ pass' = [pass EXCEPT ![s] = [pc |-> "list", queue |-> <<>>, currentCount |-> 0]]
    /\ alerts' = <<>>
    /\ lastRestart' = NoRestart
    /\ lastAttempt' = 0
    /\ UNCHANGED <<variant, restartCounts, watched, consecutiveUnhealthyChecks, lastAlertTime, lastList, botVars, otherVars>>

\* A slip of the error handling that ends every pass in flight when one fetch
\* fails.
ListFailAbortsAll(s) ==
    /\ pass[s].pc = "list"
    /\ pass' = [t \in Slots |-> Idle]
    /\ alerts' = <<>>
    /\ lastRestart' = NoRestart
    /\ lastAttempt' = 0
    /\ lastList' = [outcome |-> "failed", at |-> now]
    /\ UNCHANGED <<variant, now, restartCounts, watched, consecutiveUnhealthyChecks, lastAlertTime, botVars, otherVars>>

\* getPM2Processes rejects: the catch of checkProcessHealth logs and the pass returns.
ListFail(s) ==
    /\ pass[s].pc = "list"
    /\ pass' = [pass EXCEPT ![s] = Idle]
    /\ alerts' = <<>>
    /\ lastRestart' = NoRestart
    /\ lastAttempt' = 0
    /\ lastList' = [outcome |-> "failed", at |-> now]
    /\ UNCHANGED <<variant, now, restartCounts, watched, consecutiveUnhealthyChecks, lastAlertTime, botVars, otherVars>>

\* getPM2Processes resolves: the online processes are filtered out of the list.
ListDone(s) ==
    /\ pass[s].pc = "list"
    /\ \E processes \in Snapshots :
         LET online == OnlineProcesses(processes)
         IN  pass' = [pass EXCEPT ![s] =
                        IF online = <<>> THEN Idle
                        ELSE [pc |-> "eval", queue |-> online, currentCount |-> 0]]
    /\ alerts' = <<>>
    /\ lastRestart' = NoRestart
    /\ lastAttempt' = 0
    /\ lastList' = [outcome |-> "listed", at |-> now]
    /\ UNCHANGED <<variant, now, restartCounts, watched, consecutiveUnhealthyChecks, lastAlertTime, botVars, otherVars>>

\* The two threshold checks at the top of the loop body:
\*   if (cpu > this.cpuThreshold)       await this.sendAlert(High CPU Alert)
\*   if (memoryMB > this.memoryThreshold) await this.sendAlert(High Memory Alert)
ThresholdAlerts(proc, fails1, fails2) ==
    LET cpu == IF proc.cpu > cpuThreshold
               THEN Send(NoneSent, "HighCPU", proc.name, fails1) ELSE NoneSent
    IN  IF MemoryMB(proc.memory) > memoryThreshold
        THEN Send(cpu, "HighMemory", proc.name, fails2) ELSE cpu

\* handleStuckProcess decides on the counter it reads: restart below the
\* threshold, otherwise the manual-intervention alert.
\* A slip of the comparison that allows one restart more.
ShouldRestartAtThreshold(currentCount) == currentCount <= restartThreshold

ShouldRestart(currentCount) == currentCount < restartThreshold

\* The else branch of handleStuckProcess: the counter is reset by the statement
\* after the awaited sendAlert, so not when that call throws.
CountAfterEscalation(counts, name, alertRaised) ==
    IF alertRaised THEN counts ELSE [counts EXCEPT ![name] = 0]

\* One turn of the for loop of checkProcessHealth, up to the point where the
\* pass awaits pm2Restart, moves on to the next process, or is ended by a throw
\* that the catch of checkProcessHealth logs.  The cli build's loop body ends
\* after the threshold checks.
Evaluate(s) ==
    /\ pass[s].pc = "eval"
    /\ \E fails1 \in FailChoices(Head(pass[s].queue).cpu > cpuThreshold),
          fails2 \in FailChoices(MemoryMB(Head(pass[s].queue).memory) > memoryThreshold),
          fails3 \in FailChoices(isProcessStuck(Head(pass[s].queue))) :
         LET proc         == Head(pass[s].queue)
             thresholds   == ThresholdAlerts(proc, fails1, fails2)
             checked      == variant = "api" /\ ~thresholds.raised
             stuck        == checked /\ isProcessStuck(proc)
             currentCount == restartCounts[proc.name]
             restart      == stuck /\ ShouldRestart(currentCount)
             escalate     == stuck /\ ~ShouldRestart(currentCount)
             sent         == IF escalate
                             THEN Send(thresholds, "ManualIntervention", proc.name, fails3)
                             ELSE thresholds
         IN  /\ alerts' = sent.alerts
             /\ lastAlertTime' = AlertedAt(lastAlertTime, sent.alerts, now)
             /\ consecutiveUnhealthyChecks' =
                  IF ~checked \/ proc.name # watched THEN consecutiveUnhealthyChecks
                  ELSE IF stuck THEN Unhealthy(consecutiveUnhealthyChecks)
                  ELSE Healthy(consecutiveUnhealthyChecks)
             /\ restartCounts' =
                  IF escalate THEN CountAfterEscalation(restartCounts, proc.name, sent.raised)
                  ELSE restartCounts
             /\ pass' = [pass EXCEPT ![s] =
                           IF sent.raised THEN Idle
                           ELSE IF restart
                                THEN [@ EXCEPT !.pc = "restart", !.currentCount = currentCount]
                                ELSE NextProcess(@)]
    /\ lastRestart' = NoRestart
    /\ lastAttempt' = 0
    /\ UNCHANGED <<variant, now, watched, lastList, botVars, otherVars>>

\* A slip of handleStuckProcess that counts the attempt before it is known to
\* have succeeded.
CountEveryAttempt(counts, name, currentCount, ok) ==
    [counts EXCEPT ![name] = currentCount + 1]

\* The counter after pm2Restart returned: set(processName, currentCount + 1)
\* follows the await inside the try, so a rejected restart writes nothing.
CountAfterRestart(counts, name, currentCount, ok) ==
    IF ok THEN [counts EXCEPT ![name] = currentCount + 1] ELSE counts

\* The alerts of the try/catch of handleStuckProcess once pm2Restart settled.
\* Resolved: the restart is announced, and a throw of that sendAlert lands in
\* the catch, which sends the failure alert.  Rejected: the catch sends the
\* failure alert.
RestartAlerts(name, ok, fails1, fails2) ==
    IF ok
    THEN LET done == Send(NoneSent, "AutoRestarted", name, fails1)
         IN  IF done.raised
             THEN Send([done EXCEPT !.raised = FALSE], "AutoRestartFailed", name, fails2)
             ELSE done
    ELSE Send(NoneSent, "AutoRestartFailed", name, fails2)

\* The attempt number of the alert that announces a restart:
\*   (attempt ${currentCount + 1}/${this.restartThreshold})
AttemptNumber(currentCount) == currentCount + 1

\* pm2Restart settles.  A throw of the failure alert leaves handleStuckProcess
\* and ends the pass in the catch of checkProcessHealth.
RestartDone(s) ==
    /\ pass[s].pc = "restart"
    /\ \E ok \in BOOLEAN :
       \E fails1 \in FailChoices(ok), fails2 \in FailSets :
         LET proc == Head(pass[s].queue)
             sent == RestartAlerts(proc.name, ok, fails1, fails2)
         IN  /\ lastRestart' = [proc |-> proc.name, ok |-> ok]
             /\ lastAttempt' = IF ok THEN AttemptNumber(pass[s].currentCount) ELSE 0
             /\ restartCounts' =
                  CountAfterRestart(restartCounts, proc.name, pass[s].currentCount, ok)
             /\ alerts' = sent.alerts
             /\ pass' = [pass EXCEPT ![s] = IF sent.raised THEN Idle ELSE NextProcess(@)]
    /\ UNCHANGED <<variant, now, watched, consecutiveUnhealthyChecks, lastAlertTime, lastList, botVars, otherVars>>

Next ==
    \E s \in Slots :
        \/ Tick(s)
        \/ ListFail(s)
        \/ ListDone(s)
        \/ Evaluate(s)
        \/ RestartDone(s)

Spec == Init /\ [][Next]_vars

(***************************************************************************)
(* Properties of the monitor                                               *)
(***************************************************************************)
\* The step in which slot s runs a turn of the loop of checkProcessHealth.
Evaluates(s) == pass[s].pc = "eval" /\ pass'[s] # pass[s]

\* The step in which the pm2Restart awaited by slot s settles.
RestartSettles(s) == pass[s].pc = "restart" /\ pass'[s] # pass[s]

\* The process slot s is at.
Current(s) == Head(pass[s].queue)

HasAlert(sent, kind, n) == \E i \in 1..Len(sent) : sent[i].kind = kind /\ sent[i].proc = n

\* C1: in every pass the monitor invokes the automatic restart of a process if
\* and only if this is at least its third consecutive unhealthy check and its
\* restart counter is below restartThreshold; so never on the first or second
\* consecutive unhealthy check.
C1_RestartIffThirdUnhealthyCheck ==
    [][\A s \in Slots :
          (Evaluates(s) /\ Current(s).name = watched)
          => ((pass'[s].pc = "restart")
              <=> (/\ consecutiveUnhealthyChecks' >= EscalationThreshold
                   /\ restartCounts[watched] < restartThreshold))]_vars

\* C2: a timer tick that finds a pass still running starts no new pass, so at
\* most one pass is in flight at any time.
C2_AtMostOnePassInFlight == Cardinality(InFlight) <= 1

\* C4: two threshold alerts for the same process are at least the cooldown
\* apart; a process over its thresholds on back-to-back ticks is not alerted
\* about on each tick.
C4_AlertCooldown ==
    [][(ThresholdAlertFor(alerts', watched) /\ lastAlertTime # Never)
       => now' - lastAlertTime >= AlertCooldown]_vars

\* C7: when the automatic restart of a process fails, its restart counter is
\* left as it was (so the process is as eligible for a restart as before), and
\* the failure alert for that process is sent.
C7_FailedRestartKeepsCounter ==
    [][\A s \in Slots :
          (RestartSettles(s) /\ ~lastRestart'.ok)
          => /\ lastRestart'.proc = Current(s).name
             /\ restartCounts' = restartCounts
             /\ ShouldRestart(restartCounts'[Current(s).name])
                  = ShouldRestart(restartCounts[Current(s).name])
             /\ Len(alerts') = 1
             /\ alerts'[1].kind = "AutoRestartFailed"
             /\ alerts'[1].proc = Current(s).name
             /\ alerts'[1].attempted >= 1]_vars

\* C7, reached: three consecutive checks found the watched process stuck, the
\* restart of the third has just failed like the two before it, and the counter
\* is still 0 (restartThreshold is 2).
C7_Witness ==
    /\ consecutiveUnhealthyChecks = EscalationThreshold
    /\ now = EscalationThreshold * monitorInterval
    /\ lastRestart = [proc |-> watched, ok |-> FALSE]
    /\ restartCounts[watched] = 0
    /\ HasAlert(alerts, "AutoRestartFailed", watched)

\* C8: when handleStuckProcess runs for a process whose counter is not below
\* restartThreshold, no restart is invoked, the manual-intervention alert is
\* sent and the counter is set to 0.
C8_EscalationResetsCounter ==
    [][\A s \in Slots :
          (/\ Evaluates(s)
           /\ variant = "api"
           /\ isProcessStuck(Current(s))
           /\ \A i \in 1..Len(alerts') :
                 alerts'[i].kind \in ThresholdKinds => ~alerts'[i].raised
           /\ ~ShouldRestart(restartCounts[Current(s).name]))
          => /\ pass'[s].pc # "restart"
             /\ HasAlert(alerts', "ManualIntervention", Current(s).name)
             /\ restartCounts'[Current(s).name] = 0]_vars

\* C9: sendAlert tries every configured destination, whichever of them fail,
\* and returns to its caller without raising.
C9_AlertIsBestEffort ==
    \A i \in 1..Len(alerts) :
        /\ alerts[i].attempted = Len(authorizedChatsForAlert)
        /\ ~alerts[i].raised

\* C10: a failure while handling one process does not end the pass: a pass
\* that got its list returns only after the last online process of that list.
C10_FailureIsolatedToProcess ==
    [][\A s \in Slots :
          (pass[s].pc \in {"eval", "restart"} /\ pass'[s].pc = "idle")
          => Len(pass[s].queue) = 1]_vars

\* The timer is armed: while the model still runs ticks, a tick can start a pass.
TimerArmed == now < MaxTicks * monitorInterval => \E s \in Slots : ENABLED Tick(s)

\* The step in which the getPM2Processes awaited by slot s rejects.
ListFails(s) ==
    pass[s].pc = "list" /\ pass'[s] # pass[s] /\ lastList'.outcome = "failed"

\* The step in which the timer fires.
TimerFires == now' # now

\* C11: a failed fetch of the process list aborts only the pass that awaited
\* it: that pass returns, nothing else changes and the timer stays armed; and
\* every tick of the timer starts a pass that fetches the list.
C11_ListFailureAbortsOnlyThePass ==
    [][/\ \A s \in Slots :
            ListFails(s)
            => /\ pass'[s] = Idle
               /\ \A t \in Slots \ {s} : pass'[t] = pass[t]
               /\ restartCounts' = restartCounts
               /\ alerts' = <<>>
               /\ TimerArmed'
       /\ TimerFires => \E s \in Slots : pass[s].pc = "idle" /\ pass'[s].pc = "list"]_vars

\* C11, reached: the fetch of the first pass failed, and the second tick has
\* started a pass that is fetching the list again.
C11_Witness ==
    /\ lastList = [outcome |-> "failed", at |-> monitorInterval]
    /\ now = 2 * monitorInterval
    /\ pass[1].pc = "list"

\* C12: the threshold check that runs every monitor interval only alerts: no
\* pass of checkProcessHealth invokes a restart, stop, start or reload.
C12_ThresholdLoopNeverRemediates ==
    /\ \A s \in Slots : pass[s].pc # "restart"
    /\ lastRestart = NoRestart

(***************************************************************************)
(* The chat front end                                                      *)
(***************************************************************************)
\* AUTHORIZED_USERS as configured, and the senders updates come from.
authorizedUsers == {111}

Users == {111, 999}

\* AUDIT_LOGGING_ENABLED=true: setupMiddleware registers the audit middleware.
auditLoggingEnabled == TRUE

\* Process names and callback data are the sequences of their pieces between
\* underscores: "restart_all" is <<"restart", "all">>.  The bot runs under PM2
\* by the name its ecosystem file gives it.
botProcessName == <<"pm2-telegram-bot">>

Managed == {<<Apps[i]>> : i \in 1..Len(Apps)} \cup {botProcessName}

All == <<"all">>

\* What PM2 acts on when handed a name: "all" is every process in its list.
Targets(name) == IF name = All THEN Managed ELSE {name} \cap Managed

PM2(fn, name) == [fn |-> fn, name |-> name, targets |-> Targets(name)]

\* What a handler did: the PM2 operation it invoked and the inline keyboard of
\* its reply (empty if the reply carries none).
Reply(shows) == [op |-> NoOp, shows |-> shows]

Exec(fn, name, shows) == [op |-> PM2(fn, name), shows |-> shows]

\* `${prefix}_${name}` for every listed process.
Buttons(prefix, names) == {prefix \o n : n \in names}

\* data.startsWith(prefix + "_") and data.replace(prefix + "_", "")
HasPrefix(data, prefix) ==
    Len(data) > Len(prefix) /\ SubSeq(data, 1, Len(prefix)) = prefix

Rest(data, prefix) == SubSeq(data, Len(prefix) + 1, Len(data))

Filters == {"all", "online", "stopped", "errored"}

\* createStatusKeyboard: with at most five processes there is one page, so no
\* pagination buttons.
createStatusKeyboard(pageProcesses) ==
    Buttons(<<"app">>, pageProcesses)
    \cup {<<"status", "filter", f>> : f \in Filters}
    \cup {<<"refresh", "status">>, <<"detailed", "status">>,
          <<"restart", "all">>, <<"stop", "all">>, <<"start", "all">>}

\* The switch of getProcessStatus; online is the set of processes PM2 reports
\* online, the others are stopped.
Filtered(filter, online) ==
    CASE filter = "online"  -> online
      [] filter = "stopped" -> Managed \ online
      [] filter = "errored" -> {}
      [] OTHER              -> Managed

\* getProcessStatus: the inline keyboard under the status message.
getProcessStatus(v, filter, online) ==
    IF v = "cli"
    THEN {<<"refresh", "status">>, <<"monitor", "status">>,
          <<"restart", "all">>, <<"stop", "all">>, <<"start", "all">>}
    ELSE IF Filtered(filter, online) = {} THEN {}
         ELSE createStatusKeyboard(Filtered(filter, online))

\* getQuickStatus
getQuickStatus ==
    {<<"refresh", "status">>, <<"quick", "status">>, <<"restart", "all">>, <<"stop", "all">>}

\* showAppActions: httpHealthCheckEnabled is never set, so no health buttons.
showAppActions(appName, online) ==
    IF appName \notin Managed THEN {}
    ELSE (IF appName \in online
          THEN {<<"restart">> \o appName, <<"reload">> \o appName,
                <<"stop">> \o appName, <<"logs">> \o appName}
          ELSE {<<"start">> \o appName, <<"logs">> \o appName})
         \cup {<<"refresh", "status">>, <<"app">> \o appName}

\* The log menu of the logs_ branch, showProcessLogs and showProcessErrorLogs.
LogMenu(processName) ==
    {<<"viewlogs">> \o processName \o <<"20">>, <<"viewlogs">> \o processName \o <<"50">>,
     <<"errorlogs">> \o processName, <<"refresh", "status">>}

\* parseInt(parts[1]) || 20
ParseLines(parts) == IF Len(parts) >= 2 /\ parts[2] \in {"20", "50"} THEN parts[2] ELSE "20"

showProcessLogs(processName, lines) ==
    {<<"viewlogs">> \o processName \o <<lines>>, <<"errorlogs">> \o processName,
     <<"refresh", "status">>, <<"logs">> \o processName}

showProcessErrorLogs(processName) ==
    {<<"errorlogs">> \o processName, <<"viewlogs">> \o processName \o <<"20">>,
     <<"refresh", "status">>, <<"logs">> \o processName}

\* getProcessLogs (/logs)
getProcessLogs(match) ==
    IF match = <<>> THEN Buttons(<<"logs">>, Managed)
    ELSE {<<"logs">> \o match, <<"refresh", "status">>}

\* getAuditLogs
getAuditLogs == IF auditLoggingEnabled THEN {<<"audit", "refresh">>, <<"audit", "clear">>} ELSE {}

\* restartProcess, stopProcess, startProcess, reloadProcess: without a name the
\* candidates are offered as buttons, with a name PM2 is called with it.
ProcessCommand(fn, prefix, candidates, match) ==
    IF match = <<>> THEN Reply(Buttons(prefix, candidates)) ELSE Exec(fn, match, {})

\* The confirmation prompt of the cli build's bulk handlers.
ConfirmPrompt(verb) == {<<"confirm", verb, "all">>, <<"cancel", "action">>}

\* restartAllProcesses, stopAllProcesses, startAllProcesses: the api build calls
\* PM2 at once, the cli build replies with the confirmation prompt.
BulkCommand(v, fn, verb) ==
    IF v = "api" THEN Exec(fn, All, {}) ELSE Reply(ConfirmPrompt(verb))

\* The status message a callback branch sends after its PM2 call resolved.
AfterOp(v, online, ok) == IF ok THEN getProcessStatus(v, "all", online) ELSE {}

\* The if/else-if chain of handleCallbackQuery, in source order: the first
\* branch whose test passes runs.
Branches(v) ==
    IF v = "api"
    THEN << [exact |-> TRUE,  key |-> <<"refresh", "status">>,  do |-> "getProcessStatus"],
            [exact |-> TRUE,  key |-> <<"detailed", "status">>, do |-> "getDetailedStatus"],
            [exact |-> FALSE, key |-> <<"restart">>,            do |-> "pm2Restart"],
            [exact |-> FALSE, key |-> <<"stop">>,               do |-> "pm2Stop"],
            [exact |-> FALSE, key |-> <<"start">>,              do |-> "pm2Start"],
            [exact |-> FALSE, key |-> <<"reload">>,             do |-> "pm2Reload"],
            [exact |-> FALSE, key |-> <<"logs">>,               do |-> "logs"],
            [exact |-> FALSE, key |-> <<"viewlogs">>,           do |-> "showProcessLogs"],
            [exact |-> FALSE, key |-> <<"errorlogs">>,          do |-> "showProcessErrorLogs"],
            [exact |-> TRUE,  key |-> <<"restart", "all">>,     do |-> "pm2RestartAll"],
            [exact |-> TRUE,  key |-> <<"stop", "all">>,        do |-> "pm2StopAll"],
            [exact |-> TRUE,  key |-> <<"start", "all">>,       do |-> "pm2StartAll"],
            [exact |-> FALSE, key |-> <<"app">>,                do |-> "showAppActions"],
            [exact |-> FALSE, key |-> <<"status", "page">>,     do |-> "page"],
            [exact |-> FALSE, key |-> <<"status", "filter">>,   do |-> "filter"],
            [exact |-> FALSE, key |-> <<"healthcheck">>,        do |-> "healthcheck"],
            [exact |-> FALSE, key |-> <<"setendpoint">>,        do |-> "setendpoint"],
            [exact |-> TRUE,  key |-> <<"quick", "status">>,    do |-> "getQuickStatus"],
            [exact |-> TRUE,  key |-> <<"audit", "refresh">>,   do |-> "getAuditLogs"],
            [exact |-> TRUE,  key |-> <<"audit", "clear">>,     do |-> "clearAuditLogs"],
            [exact |-> TRUE,  key |-> <<"noop">>,               do |-> "answer"] >>
    ELSE << [exact |-> TRUE, key |-> <<"refresh", "status">>,         do |-> "getProcessStatus"],
            [exact |-> TRUE, key |-> <<"monitor", "status">>,         do |-> "getMonitoringStatus"],
            [exact |-> TRUE, key |-> <<"restart", "all">>,            do |-> "restartAllProcesses"],
            [exact |-> TRUE, key |-> <<"stop", "all">>,               do |-> "stopAllProcesses"],
            [exact |-> TRUE, key |-> <<"start", "all">>,              do |-> "startAllProcesses"],
            [exact |-> TRUE, key |-> <<"confirm", "restart", "all">>, do |-> "pm2RestartAllCLI"],
            [exact |-> TRUE, key |-> <<"confirm", "stop", "all">>,    do |-> "pm2StopAllCLI"],
            [exact |-> TRUE, key |-> <<"confirm", "start", "all">>,   do |-> "pm2StartAllCLI"],
            [exact |-> TRUE, key |-> <<"cancel", "action">>,          do |-> "cancel"],
            [exact |-> TRUE, key |-> <<"audit", "refresh">>,          do |-> "getAuditLogs"],
            [exact |-> TRUE, key |-> <<"audit", "clear">>,            do |-> "clearAuditLogs"] >>

Passes(branch, data) ==
    IF branch.exact THEN data = branch.key ELSE HasPrefix(data, branch.key)

\* The branch data takes: the first that passes from i on, or none.
Chain == [v \in Variants |-> Branches(v)]

RECURSIVE Route(_, _, _)
Route(v, i, data) ==
    IF i > Len(Chain[v]) THEN [exact |-> TRUE, key |-> <<>>, do |-> "answer"]
    ELSE IF Passes(Chain[v][i], data) THEN Chain[v][i]
    ELSE Route(v, i + 1, data)

\* handleCallbackQuery
handleCallbackQuery(v, data, online, ok) ==
    LET b    == Route(v, 1, data)
        name == Rest(data, b.key)
    IN  CASE b.do = "getProcessStatus" -> Reply(getProcessStatus(v, "all", online))
          [] b.do = "pm2Restart"       -> Exec("pm2Restart", name, AfterOp(v, online, ok))
          [] b.do = "pm2Stop"          -> Exec("pm2Stop", name, AfterOp(v, online, ok))
          [] b.do = "pm2Start"         -> Exec("pm2Start", name, AfterOp(v, online, ok))
          [] b.do = "pm2Reload"        -> Exec("pm2Reload", name, AfterOp(v, online, ok))
          [] b.do = "logs"             -> Reply(LogMenu(name))
          [] b.do = "showProcessLogs"  -> Reply(showProcessLogs(<<name[1]>>, ParseLines(name)))
          [] b.do = "showProcessErrorLogs" -> Reply(showProcessErrorLogs(name))
          [] b.do = "pm2RestartAll"    -> Exec("pm2RestartAll", All, AfterOp(v, online, ok))
          [] b.do = "pm2StopAll"       -> Exec("pm2StopAll", All, AfterOp(v, online, ok))
          [] b.do = "pm2StartAll"      -> Exec("pm2StartAll", All, AfterOp(v, online, ok))
          [] b.do = "showAppActions"   -> Reply(showAppActions(name, online))
          [] b.do = "page"             -> Reply(getProcessStatus(v, "all", online))
          [] b.do = "filter"           -> Reply(getProcessStatus(v, name[1], online))
          [] b.do = "getQuickStatus"   -> Reply(getQuickStatus)
          [] b.do = "getAuditLogs"     -> Reply(getAuditLogs)
          [] b.do = "restartAllProcesses" -> BulkCommand(v, "pm2RestartAllCLI", "restart")
          [] b.do = "stopAllProcesses"    -> BulkCommand(v, "pm2StopAllCLI", "stop")
          [] b.do = "startAllProcesses"   -> BulkCommand(v, "pm2StartAllCLI", "start")
          [] b.do = "pm2RestartAllCLI" -> Exec("pm2RestartAllCLI", All, AfterOp(v, online, ok))
          [] b.do = "pm2StopAllCLI"    -> Exec("pm2StopAllCLI", All, AfterOp(v, online, ok))
          [] b.do = "pm2StartAllCLI"   -> Exec("pm2StartAllCLI", All, AfterOp(v, online, ok))
          [] b.do = "cancel"           -> Reply(getProcessStatus(v, "all", online))
          [] OTHER                     -> Reply({})

\* setupCommands: the handlers in the order they are registered.
Registered(v) ==
    IF v = "api"
    THEN << [on |-> "command", what |-> "start",       handler |-> "start"],
            [on |-> "command", what |-> "help",        handler |-> "help"],
            [on |-> "command", what |-> "status",      handler |-> "getProcessStatus"],
            [on |-> "command", what |-> "quick",       handler |-> "getQuickStatus"],
            [on |-> "hears",   what |-> "Status",      handler |-> "getProcessStatus"],
            [on |-> "command", what |-> "restart",     handler |-> "restartProcess"],
            [on |-> "command", what |-> "restartall",  handler |-> "restartAllProcesses"],
            [on |-> "hears",   what |-> "Restart All", handler |-> "restartAllProcesses"],
            [on |-> "command", what |-> "stop",        handler |-> "stopProcess"],
            [on |-> "command", what |-> "stopall",     handler |-> "stopAllProcesses"],
            [on |-> "hears",   what |-> "Stop All",    handler |-> "stopAllProcesses"],
            [on |-> "command", what |-> "start",       handler |-> "startProcess"],
            [on |-> "command", what |-> "startall",    handler |-> "startAllProcesses"],
            [on |-> "hears",   what |-> "Start All",   handler |-> "startAllProcesses"],
            [on |-> "command", what |-> "reload",      handler |-> "reloadProcess"],
            [on |-> "command", what |-> "logs",        handler |-> "getProcessLogs"],
            [on |-> "command", what |-> "monitor",     handler |-> "toggleMonitoring"],
            [on |-> "hears",   what |-> "Monitor",     handler |-> "getMonitoringStatus"],
            [on |-> "hears",   what |-> "Settings",    handler |-> "showSettings"],
            [on |-> "command", what |-> "auditlogs",   handler |-> "getAuditLogs"],
            [on |-> "command", what |-> "clearaudit",  handler |-> "clearAuditLogs"],
            [on |-> "callback_query", what |-> "",     handler |-> "handleCallbackQuery"] >>
    ELSE << [on |-> "command", what |-> "start",       handler |-> "start"],
            [on |-> "command", what |-> "help",        handler |-> "help"],
            [on |-> "command", what |-> "status",      handler |-> "getProcessStatus"],
            [on |-> "hears",   what |-> "Status",      handler |-> "getProcessStatus"],
            [on |-> "command", what |-> "restartall",  handler |-> "restartAllProcesses"],
            [on |-> "hears",   what |-> "Restart All", handler |-> "restartAllProcesses"],
            [on |-> "command", what |-> "stopall",     handler |-> "stopAllProcesses"],
            [on |-> "hears",   what |-> "Stop All",    handler |-> "stopAllProcesses"],
            [on |-> "command", what |-> "startall",    handler |-> "startAllProcesses"],
            [on |-> "hears",   what |-> "Start All",   handler |-> "startAllProcesses"],
            [on |-> "command", what |-> "monitor",     handler |-> "getMonitoringStatus"],
            [on |-> "hears",   what |-> "Monitor",     handler |-> "getMonitoringStatus"],
            [on |-> "hears",   what |-> "Settings",    handler |-> "showSettings"],
            [on |-> "command", what |-> "auditlogs",   handler |-> "getAuditLogs"],
            [on |-> "command", what |-> "clearaudit",  handler |-> "clearAuditLogs"],
            [on |-> "callback_query", what |-> "",     handler |-> "handleCallbackQuery"] >>

\* setupMiddleware: the audit middleware, if enabled, then the authorization
\* middleware.
Middleware ==
    (IF auditLoggingEnabled THEN << [on |-> "use", what |-> "", handler |-> "audit"] >> ELSE << >>)
    \o << [on |-> "use", what |-> "", handler |-> "authorization"] >>

\* The constructor calls setupCommands, then setupMiddleware: the bot's
\* middleware stack holds the handlers first.
Stack == [v \in Variants |-> Registered(v) \o Middleware]

\* The test of the authorization middleware.
Authorized(u) == authorizedUsers = {} \/ u.from \in authorizedUsers

\* Whether a stack entry takes an update.
Takes(entry, u) ==
    CASE entry.on = "command"        -> u.kind = "command" /\ u.text = entry.what
      [] entry.on = "hears"          -> u.kind = "text" /\ u.text = entry.what
      [] entry.on = "callback_query" -> u.kind = "callback"
      [] OTHER                       -> TRUE

\* An update goes down the stack from entry i.  A handler that takes it runs and
\* does not call next; the audit middleware calls next; the authorization
\* middleware calls next for an authorized sender and replies "Unauthorized"
\* otherwise.  The result is the handler that ran, "none" if none did.
RECURSIVE Dispatch(_, _, _)
Dispatch(v, i, u) ==
    IF i > Len(Stack[v]) THEN "none"
    ELSE IF ~Takes(Stack[v][i], u) THEN Dispatch(v, i + 1, u)
    ELSE IF Stack[v][i].handler = "audit" THEN Dispatch(v, i + 1, u)
    ELSE IF Stack[v][i].handler = "authorization"
         THEN IF Authorized(u) THEN Dispatch(v, i + 1, u) ELSE "none"
    ELSE Stack[v][i].handler

\* What the handler that ran did.
Handle(v, handler, u, online, ok) ==
    CASE handler = "getProcessStatus"    -> Reply(getProcessStatus(v, "all", online))
      [] handler = "getQuickStatus"      -> Reply(getQuickStatus)
      [] handler = "restartProcess"      ->
           ProcessCommand("pm2Restart", <<"restart">>, Managed, u.match)
      [] handler = "stopProcess"         ->
           ProcessCommand("pm2Stop", <<"stop">>, online, u.match)
      [] handler = "startProcess"        ->
           ProcessCommand("pm2Start", <<"start">>, Managed \ online, u.match)
      [] handler = "reloadProcess"       ->
           ProcessCommand("pm2Reload", <<"reload">>, online, u.match)
      [] handler = "restartAllProcesses" ->
           BulkCommand(v, "pm2RestartAll", "restart")
      [] handler = "stopAllProcesses"    -> BulkCommand(v, "pm2StopAll", "stop")
      [] handler = "startAllProcesses"   -> BulkCommand(v, "pm2StartAll", "start")
      [] handler = "getProcessLogs"      -> Reply(getProcessLogs(u.match))
      [] handler = "getAuditLogs"        -> Reply(getAuditLogs)
      [] handler = "handleCallbackQuery" -> handleCallbackQuery(v, u.data, online, ok)
      [] OTHER                           -> Reply({})

\* The words after "/" and the arguments users send; the texts they type, among
\* them the labels of the reply keyboard.
CommandWords ==
    {"start", "help", "status", "quick", "restart", "restartall", "stop", "stopall",
     "startall", "reload", "logs", "monitor", "auditlogs", "clearaudit"}

Matches == {<<>>, All} \cup Managed

Texts == {"Status", "Restart All", "Stop All", "Start All", "Monitor", "Settings", "hello"}

\* The bot answers updates, so PM2 reports it online; each other process is
\* online or stopped.
OnlineSets == {{botProcessName} \cup apps : apps \in SUBSET (Managed \ {botProcessName})}

\* One update goes through the stack.  online is the set of processes PM2
\* reports online when the handler asks, ok whether the PM2 call it makes
\* resolves.
Receive(u, online, ok) ==
    /\ LET handler == Dispatch(variant, 1, u)
           done    == Handle(variant, handler, u, online, ok)
       IN  /\ lastUpdate' = u
           /\ lastHandler' = handler
           /\ lastOp' = done.op
           /\ keyboard' = IF done.shows = {} THEN keyboard
                          ELSE [to |-> u.from, buttons |-> done.shows]
    /\ UNCHANGED <<variant, monitorVars, otherVars>>

\* The commands that read ctx.match take an argument.
TakesArgument == {"restart", "stop", "start", "reload", "logs"}

ArgumentsOf(word) == IF word \in TakesArgument THEN Matches ELSE {<<>>}

\* stopProcess, startProcess and reloadProcess filter the list by status when
\* they offer candidates; the other commands' replies do not depend on it.
FiltersByStatus(word, match) == word \in {"stop", "start", "reload"} /\ match = <<>>

OnlineChoices(filters) == IF filters THEN OnlineSets ELSE {Managed}

\* A command.  Its reply does not depend on whether the PM2 call resolves.
ReceiveCommand ==
    \E from \in Users, word \in CommandWords :
    \E match \in ArgumentsOf(word) :
    \E online \in OnlineChoices(FiltersByStatus(word, match)) :
        Receive([from |-> from, kind |-> "command", text |-> word, match |-> match,
                 data |-> <<>>], online, TRUE)

\* A text message.  The handlers texts reach list every process whatever its
\* status.
ReceiveText ==
    \E from \in Users, text \in Texts :
        Receive([from |-> from, kind |-> "text", text |-> text, match |-> <<>>,
                 data |-> <<>>], Managed, TRUE)

\* A user taps a button of the latest inline keyboard the bot showed them.
ReceiveCallback ==
    \E data \in keyboard.buttons, online \in OnlineSets, ok \in BOOLEAN :
        Receive([from |-> keyboard.to, kind |-> "callback", text |-> "", match |-> <<>>,
                 data |-> data], online, ok)

NextBot == ReceiveCommand \/ ReceiveText \/ ReceiveCallback

\* The front end on its own: the monitor stays as constructed.
InitBot == Init /\ watched = Apps[1]

SpecBot == InitBot /\ [][NextBot]_vars

(***************************************************************************)
(* Properties of the chat front end                                        *)
(***************************************************************************)
\* A bulk operation: PM2 was handed "all".
IsBulk(op) == op.fn # "none" /\ op.name = All

\* C3: whenever a bulk restart-all, stop-all or start-all is executed, the set
\* of processes it targets does not contain the bot's own process name.
C3_BulkExcludesSelf == IsBulk(lastOp) => botProcessName \notin lastOp.targets

\* C5: a handler runs for an update only if its sender is in authorizedUsers;
\* an update from any other sender reaches no handler.
C5_OnlyAuthorizedReachHandlers ==
    lastHandler # "none" => lastUpdate.from \in authorizedUsers

\* C6: a bulk operation is executed only by the confirm callback of its
\* confirmation prompt; asking for it by command, keyboard text or inline
\* button alone executes nothing.
C6_BulkOnlyAfterConfirmation ==
    IsBulk(lastOp)
    => /\ lastUpdate.kind = "callback"
       /\ lastUpdate.data \in {<<"confirm", verb, "all">> : verb \in {"restart", "stop", "start"}}

\* The wrappers of pm2 restart all, pm2 stop all and pm2 start all in the two builds.
BulkOperations ==
    {"pm2RestartAll", "pm2StopAll", "pm2StartAll", "pm2RestartAllCLI", "pm2StopAllCLI", "pm2StartAllCLI"}

\* C26: no command, keyboard button or callback query makes the bot restart,
\* stop, start or reload a single named process; the only lifecycle operations
\* it executes on request are the bulk restart-all, stop-all and start-all.
C26_NoIndividualProcessControl ==
    lastOp.fn # "none" => (IsBulk(lastOp) /\ lastOp.fn \in BulkOperations)

\* C27: the command /start with a name starts the named process: it reaches
\* startProcess, which has PM2 start that process, as the help text says.
C27_StartCommandStartsProcess ==
    (/\ variant = "api"
     /\ lastUpdate.kind = "command"
     /\ lastUpdate.text = "start"
     /\ lastUpdate.match \in Managed
     /\ lastUpdate.from \in authorizedUsers)
    => (lastHandler = "startProcess" /\ lastOp = PM2("pm2Start", lastUpdate.match))

\* The entries of the stack that run for an update that goes down from entry i,
\* in order: the middleware that passes it on and the entry where it ends.
RECURSIVE Ran(_, _, _)
Ran(v, i, u) ==
    IF i > Len(Stack[v]) THEN <<>>
    ELSE IF ~Takes(Stack[v][i], u) THEN Ran(v, i + 1, u)
    ELSE IF Stack[v][i].handler = "audit" THEN <<"audit">> \o Ran(v, i + 1, u)
    ELSE IF Stack[v][i].handler = "authorization"
         THEN <<"authorization">> \o (IF Authorized(u) THEN Ran(v, i + 1, u) ELSE <<>>)
    ELSE <<Stack[v][i].handler>>

\* The audit middleware wrote its REQUEST entry for the update before the last
\* entry that ran for it.
LoggedBefore(ran) == \E i \in 1..(Len(ran) - 1) : ran[i] = "audit"

\* C30: with audit logging enabled every incoming update is recorded before it
\* is acted on: no handler runs for an update that the audit middleware has
\* not logged.
C30_HandlersRunAfterAudit ==
    (auditLoggingEnabled /\ lastHandler # "none")
    => LoggedBefore(Ran(variant, 1, lastUpdate))

(***************************************************************************)
(* SpecLogs: the log viewer of the api build                               *)
(*                                                                         *)
(* PM2 lets the operator name a process freely, so the names are drawn     *)
(* with one or two pieces between underscores.  The user opens the log     *)
(* menu of a process and taps through the log buttons the bot shows.       *)
(***************************************************************************)
NamePieces == {"my", "app", "api", "50"}

MaxPieces == 2

LogNames == UNION { [1..n -> NamePieces] : n \in 1..MaxPieces }

\* The buttons of the log replies that lead to another log reply.
LogPrefixes == {<<"logs">>, <<"viewlogs">>, <<"errorlogs">>}

\* A tap on the button of a process in the list of /logs: `logs_${proc.name}`.
OpenLogs ==
    \E from \in Users, name \in LogNames :
        Receive([from |-> from, kind |-> "callback", text |-> "", match |-> <<>>,
                 data |-> <<"logs">> \o name], Managed, TRUE)

\* A tap on a log button of the keyboard the bot showed last.
TapLogs ==
    \E data \in keyboard.buttons :
        /\ \E prefix \in LogPrefixes : HasPrefix(data, prefix)
        /\ Receive([from |-> keyboard.to, kind |-> "callback", text |-> "", match |-> <<>>,
                    data |-> data], Managed, TRUE)

NextLogs == OpenLogs \/ TapLogs

InitLogs == InitBot /\ variant = "api"

SpecLogs == InitLogs /\ [][NextLogs]_vars

\* What the bot put into `viewlogs_${processName}_${lines}`: the line count is
\* the last piece, the name all the pieces before it.
NameIn(data) == SubSeq(data, 2, Len(data) - 1)

LinesIn(data) == data[Len(data)]

\* C38: for every process name and line count, the callback data the bot
\* generates for viewing logs is parsed back by handleCallbackQuery to exactly
\* that name and line count, also when the name contains an underscore: the
\* log reply is the one for that process and that many lines.
C38_ViewLogsRoundTrip ==
    (lastHandler = "handleCallbackQuery" /\ HasPrefix(lastUpdate.data, <<"viewlogs">>))
    => keyboard.buttons = showProcessLogs(NameIn(lastUpdate.data), LinesIn(lastUpdate.data))

\* The bulk buttons of the status keyboards, and the wrapper each stands for.
BulkButtons == {<<"restart", "all">>, <<"stop", "all">>, <<"start", "all">>}

BulkWrapper(data) ==
    CASE data[1] = "restart" -> "pm2RestartAll"
      [] data[1] = "stop"    -> "pm2StopAll"
      [] data[1] = "start"   -> "pm2StartAll"

\* C37: the callbacks restart_all, stop_all and start_all of the inline buttons
\* are routed to the bulk handlers pm2RestartAll, pm2StopAll and pm2StartAll,
\* never to the single-process branch as a process named "all".
C37_BulkButtonsReachBulkHandlers ==
    (/\ variant = "api"
     /\ lastHandler = "handleCallbackQuery"
     /\ lastUpdate.data \in BulkButtons)
    => lastOp.fn = BulkWrapper(lastUpdate.data)

C21_RecoveryResetsRestartCounter ==
    [][\A s \in Slots :
          (/\ Evaluates(s)
           /\ variant = "api"
           /\ alerts' = <<>>
           /\ ~isProcessStuck(Current(s)))
          => restartCounts'[Current(s).name] = 0]_vars

\* C23: the restart counter of a process counts its successful automatic restarts
\* since the last reset, whatever the interleaving of the passes: every restart
\* that succeeds adds one to the counter as it is then, so no update is lost.
C23_NoLostCounterUpdate ==
    [][\A s \in Slots :
          (RestartSettles(s) /\ lastRestart'.ok)
          => restartCounts'[lastRestart'.proc] = restartCounts[lastRestart'.proc] + 1]_vars

\* C31: when an automatic restart succeeds, the restart counter of the process
\* increases by exactly 1, and the alert that announces the restart carries an
\* attempt number equal to the new value of the counter, which lies between 1
\* and restartThreshold.
C31_SuccessCountsOneAttempt ==
    [][\A s \in Slots :
          (RestartSettles(s) /\ lastRestart'.ok)
          => /\ HasAlert(alerts', "AutoRestarted", Current(s).name)
             /\ restartCounts'[Current(s).name] = restartCounts[Current(s).name] + 1
             /\ lastAttempt' = restartCounts'[Current(s).name]
             /\ lastAttempt' \in 1..restartThreshold]_vars

\* The place of a process in the list PM2 answers with.
Position(n) == CHOOSE i \in 1..Len(Apps) : Apps[i] = n

InSnapshotOrder(queue) ==
    \A i, j \in 1..Len(queue) : i < j => Position(queue[i].name) < Position(queue[j].name)

\* C33: in every pass only the processes whose status in the snapshot is
\* "online" are evaluated, alerted on or restarted, and they are handled one
\* after another in the order of the snapshot: what a pass has still to handle
\* is online and in that order, a step of the pass concerns the process at the
\* front only, and then the pass stays with it, moves on to the next, or ends.
C33_OnlineOnlyInSnapshotOrder ==
    [][\A s \in Slots :
          /\ \A i \in 1..Len(pass'[s].queue) : pass'[s].queue[i].status = "online"
          /\ InSnapshotOrder(pass'[s].queue)
          /\ (Evaluates(s) \/ RestartSettles(s))
             => /\ \A i \in 1..Len(alerts') : alerts'[i].proc = Current(s).name
                /\ lastRestart'.proc \in {"none", Current(s).name}
                /\ pass'[s].pc = "restart" => pass'[s].queue = pass[s].queue
                /\ pass'[s].queue \in {pass[s].queue, Tail(pass[s].queue), <<>>}]_vars

\* C33, reached: the pass alerted on the first process of the snapshot and is
\* now at the second, the last it has to handle.
C33_Witness ==
    \E s \in Slots :
        /\ pass[s].pc = "eval"
        /\ Len(pass[s].queue) = 1
        /\ pass[s].queue[1].name = Apps[2]
        /\ alerts # <<>>
        /\ alerts[1].proc = Apps[1]

\* C34: the threshold check sends the high-CPU alert for an online process
\* exactly when its cpu is strictly above cpuThreshold, and the high-memory
\* alert exactly when its memory in MB is strictly above memoryThreshold; a
\* value equal to the threshold sends no alert.
C34_ThresholdAlertsIffAbove ==
    [][\A s \in Slots :
          Evaluates(s)
          => /\ HasAlert(alerts', "HighCPU", Current(s).name)
                  <=> Current(s).cpu > cpuThreshold
             /\ HasAlert(alerts', "HighMemory", Current(s).name)
                  <=> MemoryMB(Current(s).memory) > memoryThreshold]_vars

\* C36: in every reachable state the restart counter of every process is an
\* integer between 0 and restartThreshold.
C36_CounterWithinThreshold ==
    \A n \in AppNames : restartCounts[n] \in 0..restartThreshold

\* C36, reached: the watched process was restarted restartThreshold times, and
\* the latest restart has just been counted.
C36_Witness ==
    /\ restartCounts[watched] = restartThreshold
    /\ lastRestart = [proc |-> watched, ok |-> TRUE]
    /\ lastAttempt = restartThreshold

(***************************************************************************)
(* SpecLive: the monitor with the progress the code guarantees             *)
(*                                                                         *)
(* The loop body is the bot's own code and runs whenever it can.  The cli  *)
(* build runs pm2 jlist under execAsync's timeout, so its fetch settles.   *)
(* The api build awaits the callbacks of pm2.list and pm2.restart with no  *)
(* timer beside them: whether they settle is up to the PM2 daemon.         *)
(***************************************************************************)
ListSettles(s) == variant = "cli" /\ (ListFail(s) \/ ListDone(s))

Progress == \A s \in Slots : WF_vars(Evaluate(s)) /\ WF_vars(ListSettles(s))

SpecLive == Init /\ [][Next]_vars /\ Progress

\* C22: every monitoring pass eventually completes, even when a call to PM2 never
\* responds: a timeout bounds each call, so no pass stays pending forever.
C22_EveryPassCompletes == \A s \in Slots : (pass[s].pc # "idle") ~> (pass[s].pc = "idle")

(***************************************************************************)
(* SpecCycle: the monitor of the api build for as long as the bot runs     *)
(*                                                                         *)
(* setInterval keeps firing: the timer starts a pass whenever the model    *)
(* has a slot for it, and the clock reading stops after ClockTicks ticks   *)
(* so that the states stay finitely many.  The timer and the loop body are    *)
(* the bot's own code and run whenever they can; whether PM2 answers is up *)
(* to PM2.                                                                 *)
(***************************************************************************)
\* The ticks after which the clock reading stops.
ClockTicks == 1

\* The setInterval callback of startMonitoring, at any time.
Tock(s) ==
    /\ pass[s].pc = "idle"
    /\ \A t \in Slots : t < s => pass[t].pc # "idle"
    /\ now' = IF now < ClockTicks * monitorInterval THEN now + monitorInterval ELSE now
    /\ pass' = [pass EXCEPT ![s] = [pc |-> "list", queue |-> <<>>, currentCount |-> 0]]
    /\ alerts' = <<>>
    /\ lastRestart' = NoRestart
    /\ lastAttempt' = 0
    /\ UNCHANGED <<variant, restartCounts, watched, consecutiveUnhealthyChecks, lastAlertTime, lastList, botVars, otherVars>>

NextCycle ==
    \E s \in Slots :
        \/ Tock(s)
        \/ ListFail(s)
        \/ ListDone(s)
        \/ Evaluate(s)
        \/ RestartDone(s)

InitCycle == Init /\ variant = "api" /\ watched = Apps[1]

Running == \A s \in Slots : WF_vars(Tock(s)) /\ WF_vars(Evaluate(s))

SpecCycle == InitCycle /\ [][NextCycle]_vars /\ Running

\* The manual-intervention alert for the watched process reached a destination
\* in the latest step.
Escalated ==
    \E i \in 1..Len(alerts) :
        /\ alerts[i].kind = "ManualIntervention"
        /\ alerts[i].proc = watched
        /\ Delivered(alerts[i]) > 0

\* A pass is awaiting the automatic restart of the watched process.
RestartAttempted ==
    \E s \in Slots : pass[s].pc = "restart" /\ Head(pass[s].queue).name = watched

\* C32: remediation is never locked out for good: if a process keeps being
\* escalated forever, a further automatic restart is attempted after every
\* manual-intervention alert, so restart attempts recur as often as the alerts.
C32_RemediationNeverLockedOut == ([]<>Escalated) => ([]<>RestartAttempted)

(***************************************************************************)
(* SpecHealth: what one check decides about one process                    *)
(*                                                                         *)
(* checkProcessHealth looks at the reading PM2 reports in the current pass *)
(* and at nothing else: it keeps no history.  samples is an observer: the  *)
(* readings the passes took of the process, oldest first, which is what a  *)
(* store of samples would hold.  CPU is in tenths of a percent here, the   *)
(* precision PM2 reports it with.                                          *)
(***************************************************************************)
SampleWindow == 5

CpuStuckThreshold == 1

LeakThreshold == 450

HealthReadings == { [cpu |-> c, memory |-> m * MB] : c \in {0, 1}, m \in {400, 450, 500} }

Uptimes == {StuckUptime, StuckUptime + 1}

\* PM2 counts the restarts of a process up; between two checks it can restart
\* a crashing process several times.
RestartTimes == {0, 4}

FrequentRestartDelta == 3

\* The restart count the frequent-restart check compares the next one with.
Seen(last, count) == IF count > last THEN count ELSE last

\* The last SampleWindow elements of a sequence.
Window(seq) ==
    IF Len(seq) <= SampleWindow THEN seq ELSE SubSeq(seq, Len(seq) - SampleWindow + 1, Len(seq))

\* One iteration of the loop of checkProcessHealth: what it raises about proc.
CheckFlags(v, proc) ==
    (IF proc.cpu > 10 * cpuThreshold THEN {"HighCPU"} ELSE {})
        \cup (IF MemoryMB(proc.memory) > memoryThreshold THEN {"HighMemory"} ELSE {})
        \cup (IF v = "api" /\ isProcessStuck(proc) THEN {"Stuck"} ELSE {})

CheckHealth ==
    /\ ~httpHealthCheckEnabled
    /\ \E r \in HealthReadings, u \in Uptimes, n \in { m \in RestartTimes : m >= restarts } :
        /\ samples' = Window(Append(samples, r))
        /\ uptime' = u
        /\ restarts' = n
        /\ lastRestartCountSeen' = Seen(lastRestartCountSeen, n)
        /\ verdict' = CheckFlags(variant, [name |-> watched, status |-> "online", cpu |-> r.cpu,
                                           memory |-> r.memory, uptime |-> u, restarts |-> n])
    /\ UNCHANGED <<variant, monitorVars, botVars, auditVars, httpHealthCheckEnabled, probe, listVars, pm2Vars,
                   storeVars>>

(***************************************************************************)
(* HTTP liveness probing.  handleCallbackQuery calls this.checkHttpHealth  *)
(* when httpHealthCheckEnabled is set; the method itself is not in src.    *)
(***************************************************************************)
ProbeTimeout == 5000

Latencies == {0, (8 * ProbeTimeout) \div 10 - 1, (8 * ProbeTimeout) \div 10}

ErrorClasses == {"connection-refused", "timeout", "network error"}

ProbeOutcomes ==
    [kind : {"response"}, status : {200, 404, 500, 503}, latency : Latencies, body : {"ok", "unhealthy"}]
        \cup [kind : ErrorClasses]

Failed(o) == o.kind \in ErrorClasses \/ o.status >= 500

\* What the probe stores as the last status: the class of the error or of the
\* status code.
StatusClass(o) ==
    IF o.kind \in ErrorClasses THEN o.kind
    ELSE IF o.status >= 500 THEN "HTTP 5xx"
    ELSE IF o.status >= 400 THEN "HTTP 4xx"
    ELSE "HTTP 2xx"

Flagged(o) ==
    (IF o.status >= 400 THEN {"HTTP error"} ELSE {})
        \cup (IF 10 * o.latency >= 8 * ProbeTimeout THEN {"slow response"} ELSE {})
        \cup (IF o.body = "unhealthy" THEN {"application reports unhealthy"} ELSE {})

\* A probe that forgets the outcome of a failed request.
checkHttpHealthDropsFailure(o) ==
    IF Failed(o)
    THEN [healthy |-> FALSE, reasons |-> {StatusClass(o)}, lastHttpStatus |-> "none"]
    ELSE [healthy |-> Flagged(o) = {}, reasons |-> Flagged(o), lastHttpStatus |-> StatusClass(o)]

checkHttpHealth(o) ==
    IF Failed(o)
    THEN [healthy |-> FALSE, reasons |-> {StatusClass(o)}, lastHttpStatus |-> StatusClass(o)]
    ELSE [healthy |-> Flagged(o) = {}, reasons |-> Flagged(o), lastHttpStatus |-> StatusClass(o)]

ProbeHealth ==
    /\ httpHealthCheckEnabled
    /\ \E o \in ProbeOutcomes :
        /\ probe' = [outcome |-> o, result |-> checkHttpHealth(o)]
    /\ UNCHANGED <<variant, monitorVars, botVars, auditVars, httpHealthCheckEnabled, samples, uptime, verdict,
                   restarts, lastRestartCountSeen, listVars, pm2Vars, storeVars>>

NextHealth == CheckHealth \/ ProbeHealth

InitHealth ==
    /\ Started
    /\ watched = Apps[1]
    /\ httpHealthCheckEnabled \in BOOLEAN
    /\ auditLogMaxFiles = DefaultMaxFiles

SpecHealth == InitHealth /\ [][NextHealth]_vars

\* C13: while fewer than five CPU samples of a process have been recorded, no check
\* flags the process as stuck, so none starts the remediation of a stuck process.
C13_StuckCheckAbstains == Len(samples) < SampleWindow => "Stuck" \notin verdict

RECURSIVE TotalCpu(_)
TotalCpu(seq) == IF seq = <<>> THEN 0 ELSE Head(seq).cpu + TotalCpu(Tail(seq))

\* The mean CPU of the recorded window is below the CPU-stuck threshold.
MeanCpuBelowThreshold(seq) == TotalCpu(seq) < Len(seq) * CpuStuckThreshold

\* C15: a process up for more than 300000 ms whose last five CPU samples average
\* below 0.1% gets an unhealthy verdict with the reason stuck (on which the
\* claim builds the restart by the third consecutive unhealthy check).
C15_IdleWindowIsStuck ==
    (/\ variant = "api"
     /\ Len(samples) = SampleWindow
     /\ uptime > StuckUptime
     /\ MeanCpuBelowThreshold(samples))
    => "Stuck" \in verdict

\* How many consecutive pairs of the recorded window grow in memory.
Increases(seq) == Cardinality({ i \in 1..(Len(seq) - 1) : seq[i + 1].memory > seq[i].memory })

LeakSuspected(seq) ==
    /\ Len(seq) = SampleWindow
    /\ MemoryMB(seq[Len(seq)].memory) > LeakThreshold
    /\ Increases(seq) >= SampleWindow - 2

\* C16: a check flags a potential memory leak exactly when the current memory is
\* above the leak threshold, five memory samples are recorded and at least three
\* of the four consecutive pairs among the last five grow strictly.
C16_LeakFlagIffGrowingWindow == ("PotentialLeak" \in verdict) <=> LeakSuspected(samples)

\* C17: a probe that times out, cannot connect or gets a 5xx response ends in an
\* unhealthy verdict whose reason names the class of the error, and that class
\* is stored as the last probe status of the process (health.lastHttpStatus).
C17_FailedProbeIsUnhealthy ==
    /\ \A class \in ErrorClasses :
          probe.outcome.kind = class
          => probe.result = [healthy |-> FALSE, reasons |-> {class}, lastHttpStatus |-> class]
    /\ (probe.outcome.kind = "response" /\ probe.outcome.status >= 500)
          => probe.result = [healthy |-> FALSE, reasons |-> {"HTTP 5xx"}, lastHttpStatus |-> "HTTP 5xx"]

\* The probe timed out.
C17_Witness == probe.outcome.kind = "timeout" /\ probe.result.lastHttpStatus = "timeout"

\* C25: when a check observes a restart count above the last one seen, the last
\* one seen becomes the observed count whether or not the flag trips, and the
\* check flags frequent restarts exactly when that one rise is more than 3.
C25_FrequentRestartsFlagged ==
    [][~httpHealthCheckEnabled
       => /\ restarts' > lastRestartCountSeen => lastRestartCountSeen' = restarts'
          /\ ("FrequentRestarts" \in verdict')
                <=> (restarts' - lastRestartCountSeen > FrequentRestartDelta)]_vars

(***************************************************************************)
(* SpecList: fetching the process list                                     *)
(*                                                                         *)
(* The api build hands on what pm2.list passes to its callback; the cli    *)
(* build runs pm2 jlist and parses what it prints.  An entry of PM2's list *)
(* is a record; a field PM2 left out is a field the record does not have.  *)
(***************************************************************************)
Statuses == {"online", "stopped", "errored"}

Entries == [name : AppNames, status : Statuses] \cup [status : Statuses]

MaxEntries == 2

EntryLists == UNION { [1..n -> Entries] : n \in 0..MaxEntries }

\* What pm2.list can pass to its callback.
ApiAnswers == {[kind |-> "error"]} \cup { [kind |-> "list", value |-> l] : l \in EntryLists }

\* What pm2 jlist can end with: the command fails or times out, or it prints
\* nothing, the text [], text that is not JSON, JSON that is not an array or
\* a JSON array.
CliAnswers ==
    { [kind |-> k] : k \in {"error", "blank", "brackets", "garbage", "object"} }
        \cup { [kind |-> "array", value |-> l] : l \in EntryLists }

HasName(e) == "name" \in DOMAIN e

\* The callback of processes.map in getPM2ProcessesCLI.
Simplified(e) == [name |-> IF HasName(e) THEN e.name ELSE "unknown", status |-> e.status]

Rejected == [ok |-> FALSE, processes |-> <<>>]

Resolved(l) == [ok |-> TRUE, processes |-> l]

getPM2Processes(a) == IF a.kind = "error" THEN Rejected ELSE Resolved(a.value)

getPM2ProcessesCLI(a) ==
    IF a.kind = "error" THEN Rejected
    ELSE IF a.kind \in {"blank", "brackets"} THEN Resolved(<<>>)
    ELSE IF a.kind = "garbage" THEN Rejected
    ELSE IF a.kind = "object" THEN Resolved(<<>>)
    ELSE Resolved([i \in 1..Len(a.value) |-> Simplified(a.value[i])])

ListApi ==
    /\ variant = "api"
    /\ \E a \in ApiAnswers :
        /\ answer' = a
        /\ listing' = getPM2Processes(a)
    /\ UNCHANGED <<variant, monitorVars, botVars, auditVars, healthVars, pm2Vars, storeVars>>

ListCli ==
    /\ variant = "cli"
    /\ \E a \in CliAnswers :
        /\ answer' = a
        /\ listing' = getPM2ProcessesCLI(a)
    /\ UNCHANGED <<variant, monitorVars, botVars, auditVars, healthVars, pm2Vars, storeVars>>

NextList == ListApi \/ ListCli

SpecList == InitBot /\ [][NextList]_vars

\* The entries of PM2's answer that carry a name.
WellFormed(l) == SelectSeq(l, HasName)

Listed == answer.kind \in {"list", "array"}

\* C18: an entry without a name is left out of what the list call returns, and
\* the entries of the same answer that have one are all returned.
C18_NamelessEntryIsSkipped ==
    Listed
    => /\ listing.ok
       /\ Len(listing.processes) = Len(WellFormed(answer.value))
       /\ \A i \in 1..Len(listing.processes) :
             /\ HasName(listing.processes[i])
             /\ listing.processes[i].name = WellFormed(answer.value)[i].name

\* PM2 answered with a list that has no entry.
EmptyFleet == (Listed /\ answer.value = <<>>) \/ answer.kind = "brackets"

\* The request did not get through, or what came back is not a process list.
NoList == answer.kind \in {"error", "blank", "garbage", "object"}

\* C19: the list call returns an empty list without an error exactly when PM2
\* reports that it runs no process; when the request fails or the answer is
\* not a well-formed list the call fails, it does not return an empty list.
C19_EmptyOnlyForEmptyFleet ==
    /\ (listing.ok /\ listing.processes = <<>> /\ answer # NoAnswer) <=> EmptyFleet
    /\ NoList => ~listing.ok

(***************************************************************************)
(* SpecPM2: the connection to the PM2 daemon (api build)                   *)
(*                                                                         *)
(* Every PM2 wrapper goes through safePM2Operation.  The monitor and the   *)
(* handlers of the chat run concurrently, so several calls can be between  *)
(* their awaits at once: waiting for the connect, or for their operation.  *)
(***************************************************************************)
\* A catch block that leaves the connection marked as it was.
catchKeepsConnection(connected) == connected

\* The catch block of safePM2Operation: this.pm2Connected = false.
catchResetsConnection(connected) == FALSE

\* A slip of ensurePM2Connection that does not look for a pending connect.
ConnectsUnguarded(connected, promise) == ~connected

\* ensurePM2Connection calls pm2.connect when it is past both early returns:
\* not connected, and no connect pending.
Connects(connected, promise) == ~connected /\ ~promise

\* safePM2Operation up to its first await that suspends: ensurePM2Connection
\* resolves at once when connected, else it hands out the pending connect or
\* starts one.
Call(c) ==
    /\ calls[c] = "idle"
    /\ calls' = [calls EXCEPT ![c] = IF pm2Connected THEN "running" ELSE "connecting"]
    /\ pm2ConnectionPromise' = IF pm2Connected THEN pm2ConnectionPromise ELSE TRUE
    /\ connects' = IF Connects(pm2Connected, pm2ConnectionPromise) THEN connects + 1 ELSE connects
    /\ settled' = [caller |-> c, step |-> "call", ok |-> TRUE]
    /\ UNCHANGED <<variant, monitorVars, botVars, auditVars, healthVars, listVars, storeVars, pm2Connected>>

\* The callback of pm2.connect.  On success every call that waited goes on to its
\* operation; on an error every one of them lands in its catch block.
ConnectSettles ==
    /\ connects > 0
    /\ \E ok \in BOOLEAN :
        /\ pm2ConnectionPromise' = FALSE
        /\ connects' = connects - 1
        /\ pm2Connected' = IF ok THEN TRUE ELSE catchResetsConnection(pm2Connected)
        /\ calls' = [c \in Callers |->
                       IF calls[c] = "connecting" THEN (IF ok THEN "running" ELSE "idle")
                       ELSE calls[c]]
        /\ settled' = [caller |-> 0, step |-> "connect", ok |-> ok]
    /\ UNCHANGED <<variant, monitorVars, botVars, auditVars, healthVars, listVars, storeVars>>

\* The operation of caller c settles: safePM2Operation returns its value, or
\* its catch block runs and rethrows.
OperationSettles(c) ==
    /\ calls[c] = "running"
    /\ \E ok \in BOOLEAN :
        /\ pm2Connected' = IF ok THEN pm2Connected ELSE catchResetsConnection(pm2Connected)
        /\ settled' = [caller |-> c, step |-> "operation", ok |-> ok]
    /\ calls' = [calls EXCEPT ![c] = "idle"]
    /\ UNCHANGED <<variant, monitorVars, botVars, auditVars, healthVars, listVars, storeVars, pm2ConnectionPromise, connects>>

NextPM2 == \/ \E c \in Callers : Call(c)
           \/ ConnectSettles
           \/ \E c \in Callers : OperationSettles(c)

InitPM2 == Init /\ watched = Apps[1] /\ variant = "api"

SpecPM2 == InitPM2 /\ [][NextPM2]_vars

\* The step in which a call of safePM2Operation ends in its catch block.
Fails == settled' # settled /\ ~settled'.ok

\* The step in which the operation of a call returns.
Succeeds == settled' # settled /\ settled'.step = "operation" /\ settled'.ok

\* C20: when a PM2 operation fails the connection is marked not connected, so
\* the next call connects afresh before it runs its operation; when an
\* operation succeeds the connection stays marked as it was, connected.
C20_FailureResetsConnection ==
    [][/\ Fails => ~pm2Connected'
       /\ Succeeds => pm2Connected' = pm2Connected
       /\ \A c \in Callers :
             /\ (calls[c] = "idle" /\ calls'[c] # "idle" /\ ~pm2Connected)
                   => (calls'[c] = "connecting" /\ pm2ConnectionPromise')
             /\ (calls[c] = "connecting" /\ calls'[c] = "running")
                   => (settled' = [caller |-> 0, step |-> "connect", ok |-> TRUE] /\ pm2Connected')]_vars

\* An operation has failed on an established connection, and the next call is
\* waiting for its connect.
C20_Witness ==
    /\ ~pm2Connected
    /\ pm2ConnectionPromise
    /\ settled.step = "call"
    /\ calls[settled.caller] = "connecting"
    /\ \E c \in Callers : calls[c] = "running"

\* The callers waiting for the connect.
Waiting == {c \in Callers : calls[c] = "connecting"}

\* C35: at most one connect attempt is in flight at any time: a caller of
\* ensurePM2Connection that arrives while a connect is pending waits on that
\* attempt and starts none, the attempt settles for all who wait on it, and
\* after a failed attempt nothing is left pending, so that the next caller
\* starts a new attempt.
C35_OneConnectInFlight ==
    [][/\ connects' <= 1
       /\ pm2ConnectionPromise' <=> connects' = 1
       /\ \A c \in Callers :
             (calls[c] = "idle" /\ calls'[c] = "connecting")
             => connects' = (IF pm2ConnectionPromise THEN connects ELSE connects + 1)
       /\ connects' < connects
             => /\ \A c \in Waiting : calls'[c] # "connecting"
                /\ ~pm2ConnectionPromise'
                /\ (~settled'.ok => ~pm2Connected')]_vars

\* C35, reached: one connect attempt is in flight and two callers wait on it,
\* the second having just arrived.
C35_Witness ==
    /\ connects = 1
    /\ Cardinality(Waiting) = 2
    /\ \E c \in Callers : calls[c] = "idle"
    /\ settled.step = "call"


(***************************************************************************)
(* SpecStore: the health record of one process                             *)
(*                                                                         *)
(* showAppActions reads the record from this.processHealthHistory; the     *)
(* code that fills it is not in src.  A sample is a value and the time it  *)
(* was taken at.                                                           *)
(***************************************************************************)
Capacity == 10

MaxSamples == 12

StoreReadings == { [cpu |-> 0, memory |-> 400 * MB], [cpu |-> 1, memory |-> 500 * MB] }

\* A store that turns the new sample away when the sequence is full.
AppendedDropsNewest(seq, value, at) ==
    IF Len(seq) >= Capacity THEN seq ELSE Append(seq, [value |-> value, timestamp |-> at])

\* recordSample on one sequence: append, then evict the oldest beyond capacity.
Appended(seq, value, at) ==
    LET added == Append(seq, [value |-> value, timestamp |-> at])
    IN  IF Len(added) > Capacity THEN Tail(added) ELSE added

recordSample ==
    /\ recorded < MaxSamples
    /\ \E r \in StoreReadings :
        /\ recentCpuSamples' = Appended(recentCpuSamples, r.cpu, (recorded + 1) * monitorInterval)
        /\ recentMemorySamples' =
             Appended(recentMemorySamples, MemoryMB(r.memory), (recorded + 1) * monitorInterval)
    /\ recorded' = recorded + 1
    /\ UNCHANGED <<variant, monitorVars, botVars, auditVars, healthVars, listVars, pm2Vars>>

NextStore == recordSample

SpecStore == InitBot /\ [][NextStore]_vars

\* The sequence after a sample was recorded: within capacity, the new sample
\* last, the earlier ones in their order, less the oldest if it was full.
KeptInOrder(before, after, at) ==
    /\ Len(after) <= Capacity
    /\ Len(after) = IF Len(before) = Capacity THEN Capacity ELSE Len(before) + 1
    /\ after[Len(after)].timestamp = at
    /\ \A i \in 1..(Len(after) - 1) :
          after[i] = before[IF Len(before) = Capacity THEN i + 1 ELSE i]

\* C24: the CPU samples and the memory samples of a process never number more
\* than 10, however many are recorded, and a sample recorded into a full
\* sequence evicts the oldest and keeps the order of the rest.
C24_SamplesBoundedFIFO ==
    [][recorded' # recorded
       => /\ KeptInOrder(recentCpuSamples, recentCpuSamples', recorded' * monitorInterval)
          /\ KeptInOrder(recentMemorySamples, recentMemorySamples', recorded' * monitorInterval)]_vars

\* More samples were recorded than fit, and the oldest kept is not the first.
C24_Witness ==
    /\ recorded > Capacity
    /\ Len(recentCpuSamples) = Capacity
    /\ recentCpuSamples[1].timestamp = (recorded - Capacity + 1) * monitorInterval
    /\ Len(recentMemorySamples) = Capacity

(***************************************************************************)
(* SpecAudit: the audit log and its rotation                               *)
(*                                                                         *)
(* Both builds write the audit log with the same code.  The middleware,    *)
(* the PM2 wrappers and the monitor all call logAuditWithCtx, and a call   *)
(* is suspended at each await on the file system, where another call can   *)
(* run.  Entries are short: the file stays below auditLogMaxSize.          *)
(***************************************************************************)
auditLogMaxLines == 2

MaxWrites == 6

MaxFilesChoices == {1, 2, 3}

\* A call of logAuditWithCtx starts and awaits checkLogRotation.
logAuditWithCtx(w) ==
    /\ auditLoggingEnabled
    /\ writers[w].pc = "idle"
    /\ written < MaxWrites
    /\ written' = written + 1
    /\ writers' = [writers EXCEPT ![w] = [pc |-> "check", pending |-> 1]]
    /\ UNCHANGED <<variant, monitorVars, botVars, healthVars, listVars, pm2Vars, storeVars,
                   rejected, auditLogMaxFiles, auditLogCurrentLines, logFile, rotatedFiles>>

\* checkLogRotation: no file, nothing to rotate; else rotate when the counter
\* has reached auditLogMaxLines.
checkLogRotation(w) ==
    /\ writers[w].pc = "check"
    /\ writers' = [writers EXCEPT ![w].pc =
                     IF logFile.exists /\ auditLogCurrentLines >= auditLogMaxLines
                     THEN "rotate" ELSE "append"]
    /\ UNCHANGED <<variant, monitorVars, botVars, healthVars, listVars, pm2Vars, storeVars,
                   rejected, auditLogMaxFiles, auditLogCurrentLines, logFile, rotatedFiles, written>>

\* The loop of rotateLogFile, for i from maxFiles - 1 down to 1: the file
\* numbered maxFiles - 1 is removed, each lower one moves up by one.  Files
\* numbered maxFiles and above are not looked at.
Rotated(files, maxFiles) ==
    { i + 1 : i \in { j \in files : j < maxFiles - 1 } } \cup { j \in files : j >= maxFiles }

rotateLogFile(w) ==
    /\ writers[w].pc = "rotate"
    /\ rotatedFiles' = Rotated(rotatedFiles, auditLogMaxFiles)
    /\ writers' = [writers EXCEPT ![w].pc = "move"]
    /\ UNCHANGED <<variant, monitorVars, botVars, healthVars, listVars, pm2Vars, storeVars,
                   rejected, auditLogMaxFiles, auditLogCurrentLines, logFile, written>>

\* fs.move of the current file to number 1.  It rejects when the current file is
\* gone or number 1 exists: the catch of rotateLogFile logs that and the call
\* goes on to append.  Else the counter is reset and the rotation is logged by
\* a nested logAudit, which checks the rotation again and appends its entry
\* before the entry of this call.
MoveCurrent(w) ==
    /\ writers[w].pc = "move"
    /\ IF logFile.exists /\ 1 \notin rotatedFiles
       THEN /\ rotatedFiles' = rotatedFiles \cup {1}
            /\ logFile' = NoFile
            /\ auditLogCurrentLines' = 0
            /\ writers' = [writers EXCEPT ![w] = [pc |-> "check", pending |-> @.pending + 1]]
       ELSE /\ writers' = [writers EXCEPT ![w].pc = "append"]
            /\ UNCHANGED <<rotatedFiles, logFile, auditLogCurrentLines>>
    /\ UNCHANGED <<variant, monitorVars, botVars, healthVars, listVars, pm2Vars, storeVars,
                   rejected, auditLogMaxFiles, written>>

\* fs.appendFile, which creates the file if need be, then the counter goes up.
appendFile(w) ==
    /\ writers[w].pc = "append"
    /\ logFile' = [exists |-> TRUE, lines |-> logFile.lines + 1]
    /\ auditLogCurrentLines' = auditLogCurrentLines + 1
    /\ writers' = [writers EXCEPT ![w] =
                     IF @.pending = 1 THEN Returned
                     ELSE [pc |-> "append", pending |-> @.pending - 1]]
    /\ UNCHANGED <<variant, monitorVars, botVars, healthVars, listVars, pm2Vars, storeVars,
                   rejected, auditLogMaxFiles, rotatedFiles, written>>

NextAudit ==
    \E w \in Writers :
        \/ logAuditWithCtx(w)
        \/ checkLogRotation(w)
        \/ rotateLogFile(w)
        \/ MoveCurrent(w)
        \/ appendFile(w)

InitAudit ==
    /\ Started
    /\ watched = Apps[1]
    /\ httpHealthCheckEnabled = FALSE
    /\ auditLogMaxFiles \in MaxFilesChoices

SpecAudit == InitAudit /\ [][NextAudit]_vars

\* C28: with audit logging enabled the current audit log file never holds more
\* than auditLogMaxLines entries, whatever the audit writes and however the
\* calls that issue them overlap.
C28_LogFileWithinMaxLines == logFile.lines <= auditLogMaxLines

\* The audit log files on disk: the current one and the numbered ones.
FilesKept == (IF logFile.exists THEN 1 ELSE 0) + Cardinality(rotatedFiles)

\* C29: however often the log was rotated, the audit log files kept, the current
\* one and the numbered ones together, never number more than
\* auditLogMaxFiles, for every configured value from 1 up.
C29_FilesWithinMaxFiles == FilesKept <= auditLogMaxFiles


(***************************************************************************)
(* SpecFaults: the audit log on a file system that can fail                *)
(*                                                                         *)
(* Any call to the file system may reject: the disk is full, the directory *)
(* is gone, the file is not writable.  Every await on it sits in a try.    *)
(***************************************************************************)
MaxRejects == 2

\* A catch block that logs the error and throws it on to the caller.
catchRethrows(call) == [pc |-> "raised", pending |-> 0]

\* catch (error) { console.error('Failed to write audit log:', error) }: the
\* call of logAuditWithCtx returns.  When it was the nested call that logs a
\* rotation, the outer call goes on to append its own entry.
catchLogs(call) ==
    IF call.pending = 1 THEN Returned ELSE [pc |-> "append", pending |-> call.pending - 1]

\* fs.appendFile rejects: nothing is written, the counter is not incremented.
appendFileRejects(w) ==
    /\ writers[w].pc = "append"
    /\ rejected < MaxRejects
    /\ rejected' = rejected + 1
    /\ writers' = [writers EXCEPT ![w] = catchLogs(@)]
    /\ UNCHANGED <<variant, monitorVars, botVars, healthVars, listVars, pm2Vars, storeVars,
                   auditLogMaxFiles, auditLogCurrentLines, logFile, rotatedFiles, written>>

\* A call to the file system rejects in checkLogRotation or in rotateLogFile
\* before anything was moved: their catch blocks log it, and logAuditWithCtx
\* goes on to append.
rotationRejects(w) ==
    /\ writers[w].pc \in {"check", "rotate", "move"}
    /\ rejected < MaxRejects
    /\ rejected' = rejected + 1
    /\ writers' = [writers EXCEPT ![w].pc = "append"]
    /\ UNCHANGED <<variant, monitorVars, botVars, healthVars, listVars, pm2Vars, storeVars,
                   auditLogMaxFiles, auditLogCurrentLines, logFile, rotatedFiles, written>>

NextFaults ==
    \E w \in Writers :
        \/ logAuditWithCtx(w)
        \/ checkLogRotation(w)
        \/ rotateLogFile(w)
        \/ MoveCurrent(w)
        \/ appendFile(w)
        \/ appendFileRejects(w)
        \/ rotationRejects(w)

SpecFaults == InitAudit /\ [][NextFaults]_vars

\* A call of logAuditWithCtx in flight can take its next step.
Proceeds(w) ==
    ENABLED (checkLogRotation(w) \/ rotateLogFile(w) \/ MoveCurrent(w) \/ appendFile(w))

\* C39: a failure while writing or rotating the audit log never changes the
\* outcome of the audited operation: logAuditWithCtx never raises to its
\* caller; a call in flight can always go on, and a rejected write leaves the
\* call returned or appending the entry still outstanding, the log as it was.
C39_AuditFailureNeverRaises ==
    [][\A w \in Writers :
          /\ writers'[w].pc # "raised"
          /\ writers'[w].pc # "idle" => Proceeds(w)'
          /\ (rejected' > rejected /\ writers[w].pc = "append" /\ writers'[w] # writers[w])
             => /\ writers'[w].pc \in {"idle", "append"}
                /\ writers'[w].pending = writers[w].pending - 1
                /\ logFile' = logFile
                /\ auditLogCurrentLines' = auditLogCurrentLines]_vars

\* C39, reached: the file system rejected calls, no entry is in the log although
\* writes were issued, and every call of logAuditWithCtx has returned.
C39_Witness ==
    /\ rejected = MaxRejects
    /\ written >= 2
    /\ logFile.lines = 0
    /\ rotatedFiles = {}
    /\ \A w \in Writers : writers[w] = Returned

====
